---- MODULE Spec2Model ----
(***************************************************************************)
(* Backward segment discovery of download-iglive:                          *)
(*   src/src/download/backwards.rs  download_reps_backwards,               *)
(*                                  download_backwards,                    *)
(*                                  find_next_candidates                   *)
(*   src/src/state.rs               State::new (the delta histogram)       *)
(*   src/src/main.rs                the --parallel-candidates argument     *)
(*                                                                         *)
(* Timestamps and deltas are scaled down: the program searches deltas of   *)
(* 100..9067 with search_range = 1000 and assumed_missing_delta = 2000;    *)
(* the model keeps the same code over deltas 1..3 with the tunables of     *)
(* ScaledTunables, so that an exhausted search, a gap-recovery step and a  *)
(* give-up are reached in a few batches.                                   *)
(***************************************************************************)
EXTENDS Integers, Sequences, FiniteSets, TLC

(***************************************************************************)
(* Bounds of the model.                                                    *)
(***************************************************************************)
\* min(downloaded_segs[m]) when download_backwards starts
MaxLatest == 11
\* largest --parallel-candidates value explored (0..MaxParallel)
MaxParallel == 2
\* largest number of past segments the server still holds
MaxServerSegs == 2
\* largest latest_t of a direct call of find_next_candidates
MaxCallLatest == 5
\* largest histogram whose every HashMap iteration order is explored; a larger
\* one is iterated in ascending and in descending key order
MaxShuffled == 6

(***************************************************************************)
(* Program constants.                                                      *)
(***************************************************************************)
\* backwards.rs:80  `if skipped_segments > 5`
skip_ceiling == 5

\* backwards.rs:55,58,192 scaled (2000, 10, 1000 in the program)
ScaledTunables ==
    [assumed_missing_delta |-> 2, concurrency_limit |-> 2, search_range |-> 1]

\* backwards.rs:55,58,192 as the program sets them
Tunables ==
    [assumed_missing_delta |-> 2000, concurrency_limit |-> 10,
     search_range |-> 1000]

\* mpd.rs:121-125; State::new only creates the Video and Audio entries
MediaType == {"Video", "Audio"}

\* State::new, state.rs:25-47, scaled: one dominant delta (2000 -> 2, the
\* value of assumed_missing_delta) and rarer deltas with tied counts.
default_delta == (2 :> 3) @@ (1 :> 1) @@ (3 :> 1)

\* State::new, state.rs:25-47, as the program seeds it: the keys of one
\* `for x in lo..=hi` loop, and the histogram after the last insert
DeltaKeys(lo, hi) ==
    UNION {{x * 100, x * 100 + 33, x * 100 + 67} : x \in lo..hi}

State_new_default_delta ==
    [d \in DeltaKeys(16, 24) \cup DeltaKeys(10, 15) \cup DeltaKeys(25, 30)
            \cup DeltaKeys(70, 90) \cup {2000, 100} |->
        IF d = 2000 THEN 100
        ELSE IF d = 100 THEN 2
        ELSE IF d \in DeltaKeys(16, 24)
             THEN (IF d % 100 = 0 THEN 10 ELSE 2)
             ELSE 1]

(***************************************************************************)
(* Helpers.                                                                *)
(***************************************************************************)
Min(S) == CHOOSE x \in S : \A y \in S : x <= y

Max(S) == CHOOSE x \in S : \A y \in S : x >= y

\* all sequences that list every element of S exactly once
RECURSIVE Orderings(_)
Orderings(S) ==
    IF S = {} THEN {<<>>}
    ELSE UNION {{<<x>> \o s : s \in Orderings(S \ {x})} : x \in S}

\* the elements of S in ascending order
Ascending(S) ==
    LET lo == Min(S)
        InS(x) == x \in S
    IN  IF S = {} THEN <<>>
        ELSE SelectSeq([i \in 1..(Max(S) - lo + 1) |-> lo + i - 1], InS)

Reverse(s) == [i \in 1..Len(s) |-> s[Len(s) + 1 - i]]

\* the iteration orders of a HashMap with key set S that are explored
IterationOrders(S) ==
    IF Cardinality(S) <= MaxShuffled
    THEN Orderings(S)
    ELSE {Ascending(S), Reverse(Ascending(S))}

(***************************************************************************)
(* find_next_candidates, backwards.rs:183-217.                             *)
(***************************************************************************)
\* The comparator of sort_by at backwards.rs:199, `b.cmp(a)` on the counts:
\* TRUE when key x sorts strictly before key y (x has the larger count).
CountDescending(cnt, x, y) == cnt[x] > cnt[y]

\* deltas_map.iter().collect() followed by sort_by: `iter` is the iteration
\* order of the HashMap. slice::sort_by is stable: the keys that no other key
\* sorts strictly before come first, in the order iter visited them, then the
\* same for the keys that are left.
RECURSIVE SortedFrom(_, _, _)
SortedFrom(rest, iter, cnt) ==
    IF rest = {} THEN <<>>
    ELSE LET front == {d \in rest :
                          \A e \in rest : ~CountDescending(cnt, e, d)}
             InFront(d) == d \in front
         IN  SelectSeq(iter, InFront) \o SortedFrom(rest \ front, iter, cnt)

sort_by(iter, cnt) == SortedFrom({iter[i] : i \in 1..Len(iter)}, iter, cnt)

\* backwards.rs:203: the two trial timestamps of (offset, delta)
potential_candidates(latest, delta, offset) ==
    <<latest - (delta + offset), latest - (delta - offset)>>

\* backwards.rs:205
AdmissibleNoLowerBound(c, latest, vis, lb) == c < latest /\ c \notin vis
AdmissibleUpTo(c, latest, vis, lb) == c > lb /\ c <= latest /\ c \notin vis
Admissible(c, latest, vis, lb) == c > lb /\ c < latest /\ c \notin vis

\* backwards.rs:206: the pair pushed for an admitted candidate
Pair(c, latest) == <<c, latest - c>>

\* backwards.rs:207: visited.insert(candidate_t)
InsertNothing(vis, c) == vis
InsertVisited(vis, c) == vis \cup {c}

\* backwards.rs:208: `candidates.len() >= parallel_candidates`, tested after
\* the push
BatchFull(cands, pcand) == Len(cands) >= pcand

\* The three nested loops of backwards.rs:201-214, flattened: step k is
\* (offset, index into the sorted deltas, index into potential_candidates).
\* The timestamp step k tries:
TrialFromOne(k, sorted, latest) ==
    LET n      == Len(sorted)
        offset == (k \div (2 * n)) + 1
        delta  == sorted[((k % (2 * n)) \div 2) + 1]
    IN  potential_candidates(latest, delta, offset)[(k % 2) + 1]
Trial(k, sorted, latest) ==
    LET n      == Len(sorted)
        offset == k \div (2 * n)
        delta  == sorted[((k % (2 * n)) \div 2) + 1]
    IN  potential_candidates(latest, delta, offset)[(k % 2) + 1]

\* backwards.rs:209-210: an admitted timestamp joins the batch and `visited`.
Admit(st, c, latest) ==
    [candidates |-> Append(st.candidates, Pair(c, latest)),
     visited    |-> InsertVisited(st.visited, c)]

\* The loops from step k on; st holds `candidates` and `visited` as step k
\* finds them. A step whose timestamp is not admitted changes nothing, so the
\* scan goes on at the first step from k on that admits its timestamp.
RECURSIVE Scan(_, _, _, _, _, _, _)
Scan(k, st, sorted, latest, lb, pcand, range) ==
    LET last == (range + 1) * Len(sorted) * 2 - 1
        Admits(j) ==
            Admissible(Trial(j, sorted, latest), latest, st.visited, lb)
    IN  IF \A j \in k..last : ~Admits(j)
        THEN st
        ELSE CHOOSE out \in
                 {IF BatchFull(next.candidates, pcand)
                  THEN next
                  ELSE Scan(j + 1, next, sorted, latest, lb, pcand, range) :
                     <<j, next>> \in
                         {<<i, Admit(st, Trial(i, sorted, latest), latest)>> :
                             i \in {CHOOSE h \in k..last :
                                      /\ Admits(h)
                                      /\ \A g \in k..(h - 1) : ~Admits(g)}}} :
                 TRUE

\* cnt: deltas[media_type]; iter: the iteration order of that HashMap.
\* The deltas are sorted once (backwards.rs:194-199), then scanned. Returns
\* the Vec and the visited set as the call leaves it.
find_next_candidates(cnt, iter, latest, vis, lb, pcand, range) ==
    CHOOSE out \in
        {Scan(0, first, sorted, latest, lb, pcand, range) :
            first \in {[candidates |-> <<>>, visited |-> vis]},
            sorted \in {sort_by(iter, cnt)}} : TRUE

(***************************************************************************)
(* Segment Fetcher: download_file of download/mod.rs, after section 4.B of  *)
(* the specification.                                                      *)
(***************************************************************************)
Faults == {"OtherIgLiveError", "TransportError", "TaskError"}

Results == {"Ok", "StatusNotFound", "PtsTooEarly"} \cup Faults

\* What one call can return: 404 when the server does not hold the segment,
\* otherwise success, or PtsTooEarly when the decoded PTS is checked
\* (ignore_pts = FALSE) and found too early; a call may also fail in one of
\* the ways the network of this run fails (a transport error, another error
\* kind, a panicked task).
download_file(held, ignore_pts, failing) ==
    (IF held
     THEN {"Ok"} \cup (IF ignore_pts THEN {} ELSE {"PtsTooEarly"})
     ELSE {"StatusNotFound"})
    \cup failing

(***************************************************************************)
(* State.                                                                  *)
(***************************************************************************)
VARIABLES
    \* State (state.rs:5-13), shared behind the mutex
    deltas,                 \* deltas[m]: delta -> count
    downloaded_segs,        \* downloaded_segs[m]: set of timestamps
    \* the server and the network
    server,                 \* server[m]: timestamps that are not a 404
    failures,               \* the ways a probe of this run can fail
    \* arguments of download_reps_backwards
    reps,                   \* media types of the representations passed
    start_frame,
    parallel_candidates,
    tunables,               \* assumed_missing_delta, concurrency_limit,
                            \* search_range
    joined,                 \* try_join_all has returned
    \* locals of download_backwards, one copy per media type
    pc,                     \* "loop", "collect", "done" ("absent": no rep)
    latest_t,
    visited,
    pts_too_early_segments,
    lower_bound,
    prev_delta,
    skipped_segments,
    semaphore,              \* permits available
    batch,                  \* the probe tasks of the current batch
    results,                \* what buffer_unordered has yielded so far
    batch_latest,           \* latest_t the current batch was generated from
    printed,                \* what the last step of the loop wrote with
                            \* pb.println
    \* history of each loop, per media type
    fetched,                \* timestamps passed to download_file
    refetched,              \* timestamps passed to it more than once
    pts_rejected,           \* timestamps whose last finished call returned
                            \* PtsTooEarly
    restored,               \* what pts_too_early_segments held before the
                            \* gap-recovery step that has just been taken
    \* two calls of find_next_candidates on equal arguments
    gen_in,
    gen_iter,
    gen_out

state_vars == <<deltas, downloaded_segs>>
env_vars == <<server, failures>>
arg_vars == <<reps, start_frame, parallel_candidates, tunables>>
loop_vars == <<pc, latest_t, visited, pts_too_early_segments, lower_bound,
               prev_delta, skipped_segments, semaphore, batch, results,
               batch_latest, printed>>
hist_vars == <<fetched, refetched, pts_rejected, restored>>
gen_vars == <<gen_in, gen_iter, gen_out>>
vars == <<state_vars, env_vars, arg_vars, joined, loop_vars, hist_vars,
          gen_vars>>

\* server contents explored: the segment download_backwards starts from and
\* at most MaxServerSegs of the timestamps that lie up to three
\* assumed_missing_delta before it
ServerSets ==
    LET span == 3 * ScaledTunables.assumed_missing_delta
    IN  {S \cup {MaxLatest} :
            S \in {P \in SUBSET ((MaxLatest - span)..(MaxLatest - 1)) :
                        Cardinality(P) <= MaxServerSegs}}

StartFrames == {0, MaxLatest - 4}

\* State::new (state.rs:16-61) followed by the live download that registered
\* the newest segment, then the first lines of each download_backwards
\* (backwards.rs:45-61).
InitRun(R, servers, failing, starts, pcands, tuned, priors, newest) ==
    /\ reps = R
    /\ deltas = [m \in MediaType |-> priors]
    /\ downloaded_segs = [m \in MediaType |-> {newest}]
    /\ server \in [MediaType -> servers \cup {{newest}}]
    /\ \A m \in R : server[m] \in servers
    /\ \A m \in MediaType \ R : server[m] = {newest}
    /\ failures = failing
    /\ start_frame \in starts
    /\ parallel_candidates \in pcands
    /\ tunables = tuned
    /\ joined = FALSE
    /\ pc = [m \in MediaType |-> IF m \in R THEN "loop" ELSE "absent"]
    /\ latest_t = [m \in MediaType |-> Min(downloaded_segs[m])]
    /\ visited = [m \in MediaType |-> {}]
    /\ pts_too_early_segments = [m \in MediaType |-> {}]
    /\ lower_bound = [m \in MediaType |-> 0]
    /\ prev_delta = [m \in MediaType |-> 0]
    /\ skipped_segments = [m \in MediaType |-> 0]
    /\ semaphore = [m \in MediaType |-> tunables.concurrency_limit]
    /\ batch = [m \in MediaType |-> <<>>]
    /\ results = [m \in MediaType |-> <<>>]
    /\ batch_latest = [m \in MediaType |-> latest_t[m]]
    /\ printed = [m \in MediaType |-> "none"]
    /\ fetched = [m \in MediaType |-> {}]
    /\ refetched = [m \in MediaType |-> {}]
    /\ restored = [m \in MediaType |-> {}]
    /\ pts_rejected = [m \in MediaType |-> {}]

\* the scaled runs: the priors of default_delta, the newest segment MaxLatest
InitLoops(R, servers, failing, starts, pcands, tuned) ==
    InitRun(R, servers, failing, starts, pcands, tuned, default_delta,
            MaxLatest)

NoCall ==
    /\ gen_in = <<>>
    /\ gen_iter = <<>>
    /\ gen_out = <<>>

Init ==
    NoCall /\ InitLoops({"Video"}, ServerSets, Faults, StartFrames,
                        0..MaxParallel, ScaledTunables)

(***************************************************************************)
(* download_backwards, backwards.rs:35-181.                                *)
(***************************************************************************)
\* The call at backwards.rs:64-65. HashMap::iter visits the keys in an
\* arbitrary order: every order is a possible outcome of the call.
NextCandidates(m) ==
    {find_next_candidates(deltas[m], iter, latest_t[m], visited[m],
                          lower_bound[m], parallel_candidates,
                          tunables.search_range) :
        iter \in IterationOrders(DOMAIN deltas[m])}

\* backwards.rs:70  latest_t -= assumed_missing_delta
SkipForward(latest, amd) == latest + amd
SkipBack(latest, amd) == latest - amd

\* backwards.rs:72-76: insert the new latest_t, then take the PTS-rejected
\* timestamps out of visited
RestoreRejected(vis, newlatest, tooearly) == (vis \cup {newlatest}) \ tooearly

\* backwards.rs:80
GiveUpSooner(skipped) == skipped >= skip_ceiling
GiveUpLater(skipped) == skipped > skip_ceiling + 1
GiveUp(skipped) == skipped > skip_ceiling

\* backwards.rs:63: the loop condition fails
Exit(m) ==
    /\ pc[m] = "loop"
    /\ ~(latest_t[m] > start_frame)
    /\ pc' = [pc EXCEPT ![m] = "done"]
    /\ restored' = [restored EXCEPT ![m] = {}]
    /\ printed' = [printed EXCEPT ![m] = "none"]
    /\ UNCHANGED <<state_vars, env_vars, arg_vars, joined, latest_t, visited,
                   pts_too_early_segments, lower_bound, prev_delta,
                   skipped_segments, semaphore, batch, results, batch_latest,
                   fetched, refetched, pts_rejected, gen_vars>>

\* backwards.rs:63-85: an iteration whose batch is empty
GapRecovery(m) ==
    /\ pc[m] = "loop"
    /\ latest_t[m] > start_frame
    /\ \E found \in NextCandidates(m) :
        /\ found.candidates = <<>>
        /\ LET newlatest ==
                   SkipBack(latest_t[m], tunables.assumed_missing_delta)
           IN  /\ latest_t' = [latest_t EXCEPT ![m] = newlatest]
               /\ visited' = [visited EXCEPT ![m] =
                      RestoreRejected(found.visited, newlatest,
                                      pts_too_early_segments[m])]
    /\ LET skipped == skipped_segments[m] + 1
       IN  /\ lower_bound' = [lower_bound EXCEPT ![m] = 0]
           /\ pts_too_early_segments' =
                  [pts_too_early_segments EXCEPT ![m] = {}]
           /\ skipped_segments' = [skipped_segments EXCEPT ![m] = skipped]
           /\ pc' = [pc EXCEPT ![m] = IF GiveUp(skipped) THEN "done" ELSE "loop"]
    /\ restored' = [restored EXCEPT ![m] = pts_too_early_segments[m]]
    /\ printed' = [printed EXCEPT ![m] = IF GiveUp(skipped_segments[m] + 1)
                                          THEN "missing, giving up"
                                          ELSE "missing"]
    /\ UNCHANGED <<state_vars, env_vars, arg_vars, joined, prev_delta,
                   semaphore, batch, results, batch_latest, fetched,
                   refetched, pts_rejected, gen_vars>>

\* backwards.rs:88-130: one probe task per candidate; buffer_unordered
\* spawns the first concurrency_limit of them, the others wait in the stream.
\* The task copies skipped_segments == 0 as the second argument of
\* download_file (backwards.rs:121), which section 4.B names ignore_pts.
ProbeTasks(cands, skipped, limit) ==
    [i \in 1..Len(cands) |->
        [candidate_t |-> cands[i][1],
         delta       |-> cands[i][2],
         ignore_pts  |-> (skipped = 0),
         status      |-> IF i <= limit THEN "spawned" ELSE "queued"]]

\* backwards.rs:63-66, 88-139: an iteration with a batch to probe
Generate(m) ==
    /\ pc[m] = "loop"
    /\ latest_t[m] > start_frame
    /\ \E found \in NextCandidates(m) :
        /\ found.candidates # <<>>
        /\ visited' = [visited EXCEPT ![m] = found.visited]
        /\ batch' = [batch EXCEPT ![m] =
               ProbeTasks(found.candidates, skipped_segments[m],
                          tunables.concurrency_limit)]
    /\ results' = [results EXCEPT ![m] = <<>>]
    /\ batch_latest' = [batch_latest EXCEPT ![m] = latest_t[m]]
    /\ pc' = [pc EXCEPT ![m] = "collect"]
    /\ restored' = [restored EXCEPT ![m] = {}]
    /\ printed' = [printed EXCEPT ![m] = "none"]
    /\ UNCHANGED <<state_vars, env_vars, arg_vars, joined, latest_t,
                   pts_too_early_segments, lower_bound, prev_delta,
                   skipped_segments, semaphore, fetched, refetched,
                   pts_rejected, gen_vars>>

\* backwards.rs:100-125: a spawned task takes a permit and calls
\* download_file
ProbeAcquire(m, i) ==
    /\ pc[m] = "collect"
    /\ i \in 1..Len(batch[m])
    /\ batch[m][i].status = "spawned"
    /\ semaphore[m] > 0
    /\ semaphore' = [semaphore EXCEPT ![m] = @ - 1]
    /\ batch' = [batch EXCEPT ![m][i].status = "fetching"]
    /\ LET t == batch[m][i].candidate_t
       IN  /\ fetched' = [fetched EXCEPT ![m] = @ \cup {t}]
           /\ refetched' = [refetched EXCEPT ![m] =
                  IF t \in fetched[m] THEN @ \cup {t} ELSE @]
    /\ printed' = [printed EXCEPT ![m] = "none"]
    /\ UNCHANGED <<state_vars, env_vars, arg_vars, joined, pc, latest_t,
                   visited, pts_too_early_segments, lower_bound, prev_delta,
                   skipped_segments, results, batch_latest, pts_rejected,
                   restored, gen_vars>>

\* the stream hands the next waiting candidate to tokio::spawn when a task of
\* the buffer has finished
SpawnNext(tasks) ==
    IF \E j \in 1..Len(tasks) : tasks[j].status = "queued"
    THEN LET j == Min({k \in 1..Len(tasks) : tasks[k].status = "queued"})
         IN  [tasks EXCEPT ![j].status = "spawned"]
    ELSE tasks

\* backwards.rs:117-139: download_file returns, the permit is dropped and
\* buffer_unordered yields (candidate_t, delta, result)
ProbeComplete(m, i) ==
    /\ pc[m] = "collect"
    /\ i \in 1..Len(batch[m])
    /\ batch[m][i].status = "fetching"
    /\ \E r \in download_file(batch[m][i].candidate_t \in server[m],
                              batch[m][i].ignore_pts, failures) :
        /\ downloaded_segs' =
               IF r = "Ok"
               THEN [downloaded_segs EXCEPT ![m] =
                        @ \cup {batch[m][i].candidate_t}]
               ELSE downloaded_segs
        /\ results' = [results EXCEPT ![m] =
               Append(@, [candidate_t |-> batch[m][i].candidate_t,
                          delta       |-> batch[m][i].delta,
                          result      |-> r])]
        /\ pts_rejected' = [pts_rejected EXCEPT ![m] =
               IF r = "PtsTooEarly"
               THEN @ \cup {batch[m][i].candidate_t}
               ELSE @ \ {batch[m][i].candidate_t}]
    /\ semaphore' = [semaphore EXCEPT ![m] = @ + 1]
    /\ batch' = [batch EXCEPT ![m] = SpawnNext([@ EXCEPT ![i].status = "done"])]
    /\ printed' = [printed EXCEPT ![m] = "none"]
    /\ UNCHANGED <<deltas, env_vars, arg_vars, joined, pc,
                   latest_t, visited, pts_too_early_segments, lower_bound,
                   prev_delta, skipped_segments, batch_latest, fetched,
                   refetched, restored, gen_vars>>

\* backwards.rs:148: *deltas.get_mut(&media_type).entry(delta).or_insert(0) += 1
RecordDeltaEverywhere(d, m, delta) ==
    [x \in DOMAIN d |->
        IF delta \in DOMAIN d[x]
        THEN [d[x] EXCEPT ![delta] = @ + 1]
        ELSE (delta :> 1) @@ d[x]]
RecordDelta(d, m, delta) ==
    [d EXCEPT ![m] = IF delta \in DOMAIN @
                     THEN [@ EXCEPT ![delta] = @ + 1]
                     ELSE (delta :> 1) @@ @]

\* backwards.rs:164: lower_bound = candidate_t
RaiseLowerBound(lb, c) == c

\* backwards.rs:156-174: the line pb.println writes for a failed probe
Diagnostic(result) ==
    CASE result = "PtsTooEarly"      -> "pts too early"
      [] result = "OtherIgLiveError" -> "download failed"
      [] result = "TaskError"        -> "task error"
      [] OTHER                       -> "none"

\* collect() has returned every result of the batch
CollectedSome(m) ==
    /\ pc[m] = "collect"
    /\ results[m] # <<>>
Collected(m) ==
    /\ pc[m] = "collect"
    /\ \A i \in 1..Len(batch[m]) : batch[m][i].status = "done"
    /\ results[m] # <<>>

\* after the last result the loop goes back to its condition
AfterResult(m) ==
    /\ results' = [results EXCEPT ![m] = Tail(@)]
    /\ IF Len(results[m]) = 1
       THEN /\ pc' = [pc EXCEPT ![m] = "loop"]
            /\ batch' = [batch EXCEPT ![m] = <<>>]
       ELSE UNCHANGED <<pc, batch>>

\* backwards.rs:147: latest_t = candidate_t
AdoptByDelta(latest, r) == latest - r.delta
AdoptCandidate(latest, r) == r.candidate_t

\* backwards.rs:145-155
InterpretOk(m) ==
    /\ Collected(m)
    /\ Head(results[m]).result = "Ok"
    /\ prev_delta' = [prev_delta EXCEPT ![m] = Head(results[m]).delta]
    /\ latest_t' = [latest_t EXCEPT ![m] = AdoptCandidate(@, Head(results[m]))]
    /\ deltas' = RecordDelta(deltas, m, Head(results[m]).delta)
    /\ skipped_segments' = [skipped_segments EXCEPT ![m] = 0]
    /\ visited' = [visited EXCEPT ![m] = @ \ pts_too_early_segments[m]]
    /\ pts_too_early_segments' = [pts_too_early_segments EXCEPT ![m] = {}]
    /\ AfterResult(m)
    /\ printed' = [printed EXCEPT ![m] = "none"]
    /\ UNCHANGED <<downloaded_segs, env_vars, arg_vars, joined, lower_bound,
                   semaphore, batch_latest, hist_vars, gen_vars>>

\* backwards.rs:160-166
InterpretPtsTooEarly(m) ==
    /\ Collected(m)
    /\ Head(results[m]).result = "PtsTooEarly"
    /\ lower_bound' = [lower_bound EXCEPT ![m] =
           RaiseLowerBound(@, Head(results[m]).candidate_t)]
    /\ pts_too_early_segments' = [pts_too_early_segments EXCEPT ![m] =
           @ \cup {Head(results[m]).candidate_t}]
    /\ AfterResult(m)
    /\ printed' = [printed EXCEPT ![m] = Diagnostic(Head(results[m]).result)]
    /\ UNCHANGED <<state_vars, env_vars, arg_vars, joined, latest_t, visited,
                   prev_delta, skipped_segments, semaphore, batch_latest,
                   hist_vars, gen_vars>>

\* backwards.rs:159, 167-174: StatusNotFound, another IgLiveError, an error
\* that is no IgLiveError, a failed task
InterpretFailure(m) ==
    /\ Collected(m)
    /\ Head(results[m]).result \notin {"Ok", "PtsTooEarly"}
    /\ AfterResult(m)
    /\ printed' = [printed EXCEPT ![m] = Diagnostic(Head(results[m]).result)]
    /\ UNCHANGED <<state_vars, env_vars, arg_vars, joined, latest_t, visited,
                   pts_too_early_segments, lower_bound, prev_delta,
                   skipped_segments, semaphore, batch_latest, hist_vars,
                   gen_vars>>

\* every step of the loop of media type m
download_backwards(m) ==
    \/ Exit(m)
    \/ GapRecovery(m)
    \/ Generate(m)
    \/ \E i \in 1..Len(batch[m]) : ProbeAcquire(m, i)
    \/ \E i \in 1..Len(batch[m]) : ProbeComplete(m, i)
    \/ InterpretOk(m)
    \/ InterpretPtsTooEarly(m)
    \/ InterpretFailure(m)

\* backwards.rs:28-32: try_join_all returns once every loop has returned
download_reps_backwards ==
    /\ ~joined
    /\ \A m \in reps : pc[m] = "done"
    /\ joined' = TRUE
    /\ UNCHANGED <<state_vars, env_vars, arg_vars, loop_vars, hist_vars,
                   gen_vars>>

Next ==
    \/ \E m \in reps : Exit(m)
    \/ \E m \in reps : GapRecovery(m)
    \/ \E m \in reps : Generate(m)
    \/ \E m \in reps : \E i \in 1..Len(batch[m]) : ProbeAcquire(m, i)
    \/ \E m \in reps : \E i \in 1..Len(batch[m]) : ProbeComplete(m, i)
    \/ \E m \in reps : InterpretOk(m)
    \/ \E m \in reps : InterpretPtsTooEarly(m)
    \/ \E m \in reps : InterpretFailure(m)
    \/ download_reps_backwards

Spec == Init /\ [][Next]_vars

\* Runs of one loop against a server that holds at most two past segments, on a
\* network whose failures are transport errors.
FairServerSets == {S \in ServerSets : Cardinality(S) <= 3}

InitFair ==
    NoCall /\ InitLoops({"Video"}, FairServerSets, {"TransportError"},
                        StartFrames, 0..MaxParallel, ScaledTunables)

\* The scheduling of the runtime: a loop that can take a step (a ready task,
\* a probe whose request completes) eventually takes one.
FairSpec ==
    /\ InitFair
    /\ [][Next]_vars
    /\ \A m \in MediaType : WF_vars(download_backwards(m))

\* A video and an audio representation: two loops over the shared State,
\* each with a server that holds at most one past segment, on a network
\* without failures, probing one candidate at a time, down to a start_frame
\* one gap-recovery step and one batch below the first latest_t.
SparseServerSets == {S \in ServerSets : Cardinality(S) <= 2}

OneAtATime == [ScaledTunables EXCEPT !.concurrency_limit = 1]

InitReps ==
    NoCall /\ InitLoops(MediaType, SparseServerSets, {},
                        {MaxLatest - ScaledTunables.assumed_missing_delta - 1},
                        1..MaxParallel, OneAtATime)

SpecReps == InitReps /\ [][Next]_vars

(***************************************************************************)
(* The single-gap scenario of section 8 of the specification, in the       *)
(* program's own units: the priors of State::new, the tunables of the      *)
(* program, parallel_candidates = 10, the newest segment at 100_000,       *)
(* start_frame = 90_000 and a server that holds every multiple of 2000     *)
(* from 100_000 down to 90_000 except 96_000.                              *)
(***************************************************************************)
ScenarioServer == {t \in 90000..100000 : t % 2000 = 0} \ {96000}

InitScenario ==
    NoCall /\ InitRun({"Video"}, {ScenarioServer}, {}, {90000}, {10}, Tunables,
                      State_new_default_delta, 100000)

\* One schedule of buffer_unordered (backwards.rs:130): the tasks of a batch
\* reach download_file in the order of the stream, one after the other.
InOrder(m, i) == \A j \in 1..(i - 1) : batch[m][j].status = "done"

NextInOrder ==
    \/ \E m \in reps : Exit(m)
    \/ \E m \in reps : GapRecovery(m)
    \/ \E m \in reps : Generate(m)
    \/ \E m \in reps : \E i \in 1..Len(batch[m]) :
           InOrder(m, i) /\ ProbeAcquire(m, i)
    \/ \E m \in reps : \E i \in 1..Len(batch[m]) : ProbeComplete(m, i)
    \/ \E m \in reps : InterpretOk(m)
    \/ \E m \in reps : InterpretPtsTooEarly(m)
    \/ \E m \in reps : InterpretFailure(m)
    \/ download_reps_backwards

\* the scenario, next to scaled runs of one loop that probes one candidate at a
\* time against a server with at most one past segment
SpecScenario ==
    /\ \/ InitScenario
       \/ NoCall /\ InitLoops({"Video"}, SparseServerSets, {}, StartFrames,
                               {1}, ScaledTunables)
    /\ [][NextInOrder]_vars

(***************************************************************************)
(* find_next_candidates called twice on equal arguments, as a function of  *)
(* its inputs: gen_in holds the arguments, gen_iter the iteration order    *)
(* HashMap::iter takes in the first and in the second call, gen_out the    *)
(* values returned so far.                                                 *)
(***************************************************************************)
\* histograms explored: the priors, one with every count tied, one whose
\* most frequent delta has neighbours that are no keys, an empty one
CallDeltas ==
    {default_delta, (1 :> 1) @@ (2 :> 1), (2 :> 3) @@ (4 :> 1), <<>>}

CallInputs ==
    [latest_t : (MaxCallLatest - 1)..MaxCallLatest,
     visited : SUBSET (1..(MaxCallLatest - 1)),
     lower_bound : {0, 2},
     deltas : CallDeltas,
     parallel_candidates : 0..MaxParallel]

InitCall ==
    /\ InitLoops({}, {{MaxLatest}}, {}, {0}, {0}, ScaledTunables)
    /\ gen_in \in CallInputs
    /\ gen_iter \in Orderings(DOMAIN gen_in.deltas)
                        \X Orderings(DOMAIN gen_in.deltas)
    /\ gen_out = <<>>

Call ==
    /\ Len(gen_out) < 2
    /\ gen_out' = Append(gen_out,
           find_next_candidates(gen_in.deltas, gen_iter[Len(gen_out) + 1],
                                gen_in.latest_t, gen_in.visited,
                                gen_in.lower_bound, gen_in.parallel_candidates,
                                tunables.search_range))
    /\ UNCHANGED <<state_vars, env_vars, arg_vars, joined, loop_vars,
                   hist_vars, gen_in, gen_iter>>

NextCall == Call

SpecCall == InitCall /\ [][NextCall]_vars

(***************************************************************************)
(* Properties of the discovery loop.                                       *)
(***************************************************************************)
\* a success of the current batch has been adopted as latest_t
Adopted(m) == pc[m] = "collect" /\ latest_t[m] # batch_latest[m]

\* server segments strictly between the adopted latest_t and the latest_t
\* the batch was generated from
SkippedOver(m) ==
    {s \in server[m] : latest_t[m] < s /\ s < batch_latest[m]}

\* C1, as claimed: whenever a successfully fetched timestamp is adopted as
\* latest_t, the server holds no segment strictly between it and the
\* latest_t the batch was generated from.
C1_ImmediatelyPreceding ==
    [][\A m \in MediaType :
          InterpretOk(m) =>
              \A s \in server[m] :
                  ~(latest_t'[m] < s /\ s < batch_latest[m])]_vars

\* C1, amended: whenever a successfully fetched timestamp is adopted as
\* latest_t, it is a segment the server holds and it is strictly smaller than
\* the latest_t the batch was generated from (segments in between may be
\* skipped over).
C1_PrecedingSegment ==
    [][\A m \in MediaType :
          InterpretOk(m) =>
              /\ latest_t'[m] \in server[m]
              /\ latest_t'[m] < batch_latest[m]]_vars

\* a success has been adopted although the server holds a segment between it
\* and the batch's latest_t
C1_Witness == \E m \in reps : Adopted(m) /\ SkippedOver(m) # {}

\* C2, as claimed: every assignment to latest_t stores a value strictly
\* smaller than the value latest_t held immediately before.
C2_EveryAssignmentDescends ==
    [][\A m \in MediaType :
          latest_t'[m] # latest_t[m] => latest_t'[m] < latest_t[m]]_vars

\* C2, amended: every assignment to latest_t stores a value strictly smaller
\* than the value latest_t had when the current iteration began: a success
\* stores less than the latest_t its batch was generated from, a gap-recovery
\* step less than the value before it.
C2_DescentPerIteration ==
    [][\A m \in MediaType :
          latest_t'[m] # latest_t[m] =>
              latest_t'[m] < (IF pc[m] = "collect" THEN batch_latest[m]
                              ELSE latest_t[m])]_vars

\* a batch whose first success has been adopted and whose next result is a
\* success with a larger timestamp
C2_Witness ==
    \E m \in reps :
        /\ Adopted(m)
        /\ Collected(m)
        /\ Head(results[m]).result = "Ok"
        /\ Head(results[m]).candidate_t > latest_t[m]

\* C3, as claimed: no timestamp is passed to download_file more than once.
C3_NoReprobe == \A m \in MediaType : refetched[m] = {}

\* C3, amended: a timestamp is passed to download_file again only when its
\* previous call returned PtsTooEarly; a timestamp whose last call returned
\* anything else is never probed again.
C3_ReprobeOnlyAfterPtsTooEarly ==
    [][\A m \in MediaType : \A i \in 1..Len(batch[m]) :
          ProbeAcquire(m, i) =>
              \/ batch[m][i].candidate_t \notin fetched[m]
              \/ batch[m][i].candidate_t \in pts_rejected[m]]_vars

\* a reinstated PtsTooEarly timestamp is in flight for the second time
C3_Witness ==
    \E m \in reps : \E i \in 1..Len(batch[m]) :
        /\ batch[m][i].status = "fetching"
        /\ batch[m][i].candidate_t \in refetched[m]

\* C4: right after a gap-recovery step pts_too_early is empty and every
\* timestamp it held is admissible again: not in visited, greater than
\* lower_bound and smaller than the new latest_t.
C4_ReinstatedAdmissible ==
    \A m \in MediaType : \A t \in restored[m] :
        /\ pts_too_early_segments[m] = {}
        /\ Admissible(t, latest_t[m], visited[m], lower_bound[m])

\* C9: skipped_segments never exceeds skip_ceiling + 1, and once it exceeds
\* skip_ceiling the loop has ended: no batch is in flight and none follows.
C9_GapBound ==
    \A m \in MediaType :
        /\ skipped_segments[m] <= skip_ceiling + 1
        /\ skipped_segments[m] > skip_ceiling =>
               pc[m] = "done" /\ batch[m] = <<>> /\ results[m] = <<>>

\* the loop has given up after skip_ceiling + 1 gap-recovery steps
C9_Witness ==
    \E m \in reps : skipped_segments[m] = skip_ceiling + 1 /\ pc[m] = "done"

(***************************************************************************)
(* Properties of find_next_candidates.                                     *)
(***************************************************************************)
\* C5: two calls with equal latest_t, visited, deltas, lower_bound and
\* parallel_candidates return the same list of pairs in the same order.
C5_Deterministic ==
    Len(gen_out) = 2 => gen_out[1].candidates = gen_out[2].candidates

\* C6: every returned pair (candidate_t, delta) has lower_bound < candidate_t
\* < latest_t, candidate_t was not in visited before the call, is in visited
\* after it, and delta = latest_t - candidate_t; the call adds nothing else to
\* visited.
C6_CandidateValidity ==
    \A k \in 1..Len(gen_out) :
        LET out == gen_out[k]
        IN  /\ \A i \in 1..Len(out.candidates) :
                   LET c == out.candidates[i][1]
                       d == out.candidates[i][2]
                   IN  /\ gen_in.lower_bound < c
                       /\ c < gen_in.latest_t
                       /\ c \notin gen_in.visited
                       /\ c \in out.visited
                       /\ d = gen_in.latest_t - c
            /\ out.visited =
                   gen_in.visited \cup
                       {out.candidates[i][1] : i \in 1..Len(out.candidates)}

\* a call with a lower bound and visited timestamps in the way has returned
\* two candidates
C6_Witness ==
    /\ Len(gen_out) >= 1
    /\ Len(gen_out[1].candidates) >= 2
    /\ gen_in.lower_bound > 0
    /\ gen_in.visited # {}

\* C7: a call returns at most parallel_candidates pairs, for every value of
\* parallel_candidates, and the candidate timestamps of one batch are pairwise
\* distinct.
C7_BatchSizeBound ==
    \A k \in 1..Len(gen_out) :
        LET cands == gen_out[k].candidates
        IN  /\ Len(cands) <= gen_in.parallel_candidates
            /\ \A i, j \in 1..Len(cands) :
                   i # j => cands[i][1] # cands[j][1]

(***************************************************************************)
(* Properties of the shared State and of termination.                      *)
(***************************************************************************)
\* the count of delta d in histogram h, 0 when d is no key of it
Count(h, d) == IF d \in DOMAIN h THEN h[d] ELSE 0

\* C8: interpreting a success with delta D in the loop of media type m
\* raises deltas[m][D] by exactly one (creating the key at 1), leaves every
\* other key of deltas[m] and every deltas[m'] unchanged, under any
\* interleaving of the loops; no step lowers a count or removes a key.
C8_DeltaLearningLocal ==
    [][\A m \in MediaType :
          /\ \A d \in DOMAIN deltas[m] :
                 d \in DOMAIN deltas'[m] /\ deltas'[m][d] >= deltas[m][d]
          /\ InterpretOk(m) =>
                 LET D == Head(results[m]).delta
                 IN  /\ DOMAIN deltas'[m] = DOMAIN deltas[m] \cup {D}
                     /\ deltas'[m][D] = Count(deltas[m], D) + 1
                     /\ \A d \in DOMAIN deltas[m] \ {D} :
                            deltas'[m][d] = deltas[m][d]
                     /\ \A other \in MediaType \ {m} :
                            deltas'[other] = deltas[other]]_vars

\* both loops have learned a delta, the video loop one the audio loop has
\* not, while the audio loop is still running
C8_Witness ==
    /\ reps = MediaType
    /\ pc["Audio"] # "done"
    /\ deltas["Audio"] # default_delta
    /\ \E d \in DOMAIN deltas["Video"] :
           Count(deltas["Video"], d) > Count(deltas["Audio"], d)
               /\ Count(deltas["Video"], d) > Count(default_delta, d)

\* C10: when every probe completes, every run of download_backwards ends,
\* and when it has ended latest_t <= start_frame or skipped_segments exceeds
\* skip_ceiling.
C10_Termination ==
    /\ <>(\A m \in reps : pc[m] = "done")
    /\ [](\A m \in reps :
             pc[m] = "done" =>
                 \/ latest_t[m] <= start_frame
                 \/ skipped_segments[m] > skip_ceiling)

\* a run that probed a reinstated PtsTooEarly timestamp again has ended
\* through the loop condition
C10_Witness ==
    \E m \in reps :
        /\ pc[m] = "done"
        /\ refetched[m] # {}
        /\ latest_t[m] <= start_frame
        /\ skipped_segments[m] <= skip_ceiling

\* C11: in the single-gap scenario the run takes exactly one gap-recovery step
\* (from 98_000 to the assumed position 96_000), latest_t then reaches 94_000
\* by the next success, which returns skipped_segments to 0: when the run has
\* ended, 96_000 was stepped over by gap recovery, 94_000 has been fetched and
\* skipped_segments is 0.
C11_SingleGap ==
    \A m \in reps :
        (tunables = Tunables /\ pc[m] = "done") =>
            /\ 96000 \in visited[m]
            /\ 94000 \in downloaded_segs[m]
            /\ skipped_segments[m] = 0

(***************************************************************************)
(* C12.                                                                    *)
(***************************************************************************)
\* a run in which every probe returns StatusNotFound: the server holds the
\* newest segment only and the network does not fail
AllNotFound(m) ==
    /\ tunables = ScaledTunables
    /\ failures = {}
    /\ server[m] = {MaxLatest}

\* C12 as stated: whatever latest_t > start_frame the loop starts from, a
\* loop whose every probe returns StatusNotFound ends through the give-up
\* branch, with skipped_segments = 6.
C12_AlwaysGiveUp ==
    \A m \in reps :
        (AllNotFound(m) /\ pc[m] = "done") =>
            /\ GiveUp(skipped_segments[m])
            /\ skipped_segments[m] = skip_ceiling + 1

\* C12 (amended): a loop whose every probe returns StatusNotFound ends
\* through the give-up branch, with skipped_segments = 6 and latest_t six
\* assumed_missing_delta below its first value, when start_frame lies more
\* than five assumed_missing_delta below the first latest_t; otherwise it
\* ends through latest_t <= start_frame with at most five skipped segments.
C12_GiveUpWhenFar ==
    \A m \in reps :
        (AllNotFound(m) /\ pc[m] = "done") =>
            IF MaxLatest - skip_ceiling * tunables.assumed_missing_delta
                   > start_frame
            THEN /\ skipped_segments[m] = skip_ceiling + 1
                 /\ latest_t[m] = MaxLatest - (skip_ceiling + 1)
                                      * tunables.assumed_missing_delta
            ELSE /\ skipped_segments[m] <= skip_ceiling
                 /\ latest_t[m] <= start_frame

C12_Witness ==
    \E m \in reps :
        /\ AllNotFound(m)
        /\ pc[m] = "done"
        /\ fetched[m] # {}
        /\ skipped_segments[m] = skip_ceiling + 1

(***************************************************************************)
(* C13.                                                                    *)
(***************************************************************************)
\* C13: the probes of a batch generated while skipped_segments > 0 pass
\* ignore_pts = TRUE as the second argument of download_file, those of a
\* batch generated while skipped_segments = 0 pass ignore_pts = FALSE.
\* (skipped_segments keeps the value the batch was generated under until the
\* results are interpreted, that is while pc = "collect".)
C13_PtsBypass ==
    \A m \in reps :
        pc[m] = "collect" =>
            \A i \in 1..Len(batch[m]) :
                batch[m][i].ignore_pts = (skipped_segments[m] > 0)

(***************************************************************************)
(* C14.                                                                    *)
(***************************************************************************)
\* C14: interpreting a PtsTooEarly result for candidate c leaves lower_bound
\* at max(previous lower_bound, c), so that several PtsTooEarly results of
\* one batch leave it at the largest of their candidates whatever the order
\* of interpretation.
C14_LowerBoundMax ==
    [][\A m \in reps :
          InterpretPtsTooEarly(m) =>
              lower_bound'[m] =
                  Max({lower_bound[m], Head(results[m]).candidate_t})]_vars

(***************************************************************************)
(* C15.                                                                    *)
(***************************************************************************)
\* C15 as stated: at the start of every iteration of the loop of media type
\* m, latest_t is in downloaded_segs[m] and is its minimum.
C15_LatestIsMinDownloaded ==
    \A m \in reps :
        pc[m] = "loop" =>
            /\ latest_t[m] \in downloaded_segs[m]
            /\ latest_t[m] = Min(downloaded_segs[m])

\* C15 (amended): at the start of every iteration that finds
\* skipped_segments = 0, latest_t is in downloaded_segs[m], and it is the
\* minimum of downloaded_segs[m] at the start of the first iteration.
C15_LatestDownloaded ==
    \A m \in reps :
        (pc[m] = "loop" /\ skipped_segments[m] = 0) =>
            /\ latest_t[m] \in downloaded_segs[m]
            /\ fetched[m] = {} => latest_t[m] = Min(downloaded_segs[m])

\* an iteration starts after a batch with two successes
C15_Witness ==
    \E m \in reps :
        /\ pc[m] = "loop"
        /\ skipped_segments[m] = 0
        /\ Cardinality(downloaded_segs[m]) >= 3
        /\ latest_t[m] # Min(downloaded_segs[m])

(***************************************************************************)
(* C16.                                                                    *)
(***************************************************************************)
\* the probes of the loop of media type m that hold a permit and are inside
\* download_file
InFlight(m) ==
    Cardinality({i \in 1..Len(batch[m]) : batch[m][i].status = "fetching"})

\* C16: at every moment the probes that hold a permit and are inside
\* download_file number at most concurrency_limit, within each loop and
\* summed over the loops of one download_reps_backwards call.
C16_ConcurrencyCap ==
    /\ \A m \in MediaType : InFlight(m) <= tunables.concurrency_limit
    /\ InFlight("Video") + InFlight("Audio") <= tunables.concurrency_limit

(***************************************************************************)
(* C17.                                                                    *)
(***************************************************************************)
\* every probe of the batch of media type m has completed
Drained(m) == \A i \in 1..Len(batch[m]) : batch[m][i].status = "done"

\* C17: the candidate generator is called (the loop stands at its condition)
\* only when no probe of the loop is in flight; a result is interpreted only
\* when every probe of the batch has completed, one result at a time, and
\* the loop returns to its condition only after the last result of the batch
\* has been interpreted, whether or not an earlier one was a success.
C17_BatchBarrier ==
    [][\A m \in reps :
          /\ pc[m] = "loop" => batch[m] = <<>> /\ results[m] = <<>>
          /\ Len(results'[m]) < Len(results[m]) =>
                 /\ Drained(m)
                 /\ results'[m] = Tail(results[m])
          /\ (pc[m] = "collect" /\ pc'[m] # "collect") =>
                 /\ Drained(m)
                 /\ pc'[m] = "loop"
                 /\ Len(results[m]) = 1
                 /\ results'[m] = <<>>]_vars

\* a batch of two probes: the first result interpreted was a success, the
\* second is still to be interpreted
C17_Witness ==
    \E m \in reps :
        /\ pc[m] = "collect"
        /\ Len(batch[m]) = 2
        /\ Drained(m)
        /\ Len(results[m]) = 1
        /\ latest_t[m] \in {batch[m][i].candidate_t : i \in 1..2}
        /\ latest_t[m] # results[m][1].candidate_t

(***************************************************************************)
(* C18.                                                                    *)
(***************************************************************************)
\* the timestamps of a returned list, and the place of one of them
Timestamps(cands) == {cands[i][1] : i \in 1..Len(cands)}
Place(cands, c) == CHOOSE i \in 1..Len(cands) : cands[i][1] = c

\* the most frequent deltas of histogram h
MostFrequent(h) == {d \in DOMAIN h : \A e \in DOMAIN h : h[e] <= h[d]}

\* timestamps that are an exact hit on a delta of h
ExactHits(h, latest) == {latest - d : d \in DOMAIN h}

\* C18 as stated: a near-miss on the most frequent delta D is placed before
\* the exact hit on any delta R of lower count, when the returned list holds
\* both.
C18_NearMissFirst ==
    \A k \in 1..Len(gen_out) :
        LET cands == gen_out[k].candidates
            h     == gen_in.deltas
        IN  \A D \in MostFrequent(h), R \in DOMAIN h :
                \A near \in {gen_in.latest_t - (D + 1),
                             gen_in.latest_t - (D - 1)} :
                    (/\ h[R] < h[D]
                     /\ near \notin ExactHits(h, gen_in.latest_t)
                     /\ near \in Timestamps(cands)
                     /\ gen_in.latest_t - R \in Timestamps(cands))
                    => Place(cands, near) < Place(cands, gen_in.latest_t - R)

\* C18 (amended): the exact hit latest_t - R on any delta R of the histogram,
\* when admissible, is in the returned list before every timestamp of the
\* list that is no exact hit, a near-miss on the most frequent delta
\* included.
C18_ExactHitFirst ==
    \A k \in 1..Len(gen_out) :
        LET cands == gen_out[k].candidates
            h     == gen_in.deltas
        IN  \A R \in DOMAIN h :
                \A near \in Timestamps(cands)
                                \ ExactHits(h, gen_in.latest_t) :
                    Admissible(gen_in.latest_t - R, gen_in.latest_t,
                               gen_in.visited, gen_in.lower_bound)
                    => /\ gen_in.latest_t - R \in Timestamps(cands)
                       /\ Place(cands, gen_in.latest_t - R)
                              < Place(cands, near)

\* a returned list holds the exact hit on a delta of lower count and, after
\* it, a near-miss on the most frequent delta
C18_Witness ==
    /\ Len(gen_out) >= 1
    /\ LET cands == gen_out[1].candidates
           h     == gen_in.deltas
       IN  \E D \in MostFrequent(h), R \in DOMAIN h :
               \E near \in {gen_in.latest_t - (D + 1),
                            gen_in.latest_t - (D - 1)} :
                   /\ h[R] < h[D]
                   /\ near \notin ExactHits(h, gen_in.latest_t)
                   /\ near \in Timestamps(cands)
                   /\ gen_in.latest_t - R \in Timestamps(cands)
                   /\ Place(cands, gen_in.latest_t - R) < Place(cands, near)

(***************************************************************************)
(* C19.                                                                    *)
(***************************************************************************)
\* C19: interpreting a probe failure other than StatusNotFound and
\* PtsTooEarly writes a line to the progress sink and changes nothing else
\* of the loop or of the State: latest_t, lower_bound, skipped_segments,
\* visited, pts_too_early_segments and deltas stay as they are, and the loop
\* goes on with the next result.
C19_FailureReported ==
    [][\A m \in reps :
          (InterpretFailure(m) /\ Head(results[m]).result \in Faults) =>
              /\ printed'[m] # "none"
              /\ results'[m] = Tail(results[m])
              /\ UNCHANGED <<latest_t, lower_bound, skipped_segments,
                             visited, pts_too_early_segments, deltas>>]_vars

(***************************************************************************)
(* C20.                                                                    *)
(***************************************************************************)
\* C20: at the start of every iteration of the loop (the loop condition
\* latest_t > start_frame holds), lower_bound < latest_t.
C20_LowerBoundBelowLatest ==
    \A m \in reps :
        (pc[m] = "loop" /\ latest_t[m] > start_frame) =>
            lower_bound[m] < latest_t[m]

====
